---- MODULE Spec2Model ----
(***************************************************************************)
(* Model of unusedlambda.py: one run of main().  The inventory of Lambda   *)
(* function ARNs is listed, three Athena statements are built and run one  *)
(* after the other by run_query (submit, poll the status, fetch the        *)
(* results), the last result is parsed into the set of functions used and  *)
(* the functions of the inventory that are not in that set are printed.    *)
(*                                                                         *)
(* The Lambda and Athena services are the environment.  What a call        *)
(* returns is chosen in the action that makes the call; the variable svc   *)
(* keeps what Athena has disclosed about each execution so far.            *)
(***************************************************************************)
EXTENDS Integers, Sequences, FiniteSets, TLC

VARIABLES
  pc,                     \* position of the control thread in main / run_query
  function_arns,          \* main: list returned by retrieve_function_arns
  queries,                \* main: the three statements of build_query_strings
  query_results,          \* main: what run_query returned, one entry per statement
  response,               \* run_query: QueryExecutionId of the current submission
  execution_status,       \* run_query: state read by the last status poll
  result_set,             \* main: rows of the last entry of query_results
  set_of_functions_used,  \* main: set returned by the parser
  difference_list,        \* main: list(set(function_arns) - set_of_functions_used)
  stdout,                 \* the lines printed from line 178 on
  error,                  \* the exception that ended the run, None if none
  polls,                  \* run_query: passes of the polling loop made so far, 0 outside
  svc,                    \* Athena: execution id -> statement, last state disclosed,
                          \*   its diagnostic, polled
  list_calls,             \* history: calls of list_functions made
  failures,               \* history: per FAILED poll, the id polled and what line 137 printed
  submitted,              \* history: execution ids in the order of submission
  status_arg,             \* history: id passed to the last get_query_execution of this run_query
  results_arg,            \* history: id passed to get_query_results by this run_query
  pages                   \* Athena: the paginated result of the last execution fetched

vars == <<pc, function_arns, queries, query_results, response, execution_status,
          result_set, set_of_functions_used, difference_list, stdout, error,
          polls, svc, list_calls, failures, submitted, status_arg, results_arg,
          pages>>

(***************************************************************************)
(* Bounds of the model.                                                    *)
(***************************************************************************)
MaxInventory == 2   \* longest list list_functions returns
MaxPolls     == 2   \* passes of the polling loop of one run_query
MaxDataRows  == 2   \* data rows in a result, over all its pages
MaxPages     == 2   \* pages of a result

None == "None"

\* What run_query returns on line 138 (a bare return), and the absence of an id.
NoneValue == [type |-> "NoneType"]
NoId      == <<None>>

\* An uncaught exception: its type and the call that raised it.
Exception(type, op) == [type |-> type, op |-> op]
NoError == Exception(None, None)

\* ARNs the Lambda service may list and CloudTrail may have recorded.
Arns == {"fn-a", "fn-b"}

\* Execution ids the query service may hand out, as character sequences.
ExecIds == { <<"q", "1">>, <<"q", "2">>, <<"q", "3">>, <<"I", "D", "q", "1">> }

TABLE_NAME                == "cloudtrail_logs"
CLOUDTRAIL_S3_BUCKET_NAME == "s3://cloudtrail-logs-bucket/AWSLogs/123456789012/"

Roles == <<"create_table", "add_partition", "compute_activity">>

States         == {"SUBMITTED", "RUNNING", "SUCCEEDED", "FAILED", "CANCELLED"}
TerminalStates == {"SUCCEEDED", "FAILED", "CANCELLED"}

HEADING == "\nHere are the functions that haven't been invoked in the past 30 days"

\* The line printed on line 137.
FAILED_MESSAGE == "The query failed. Check the Athena history for details."

\* The diagnostic the service attaches to a FAILED status (StateChangeReason).
Diagnostics == {"Access Denied"}

(***************************************************************************)
(* Sequences.                                                              *)
(***************************************************************************)
ToSet(s) == { s[i] : i \in 1..Len(s) }

RECURSIVE SeqsOfLen(_, _)
SeqsOfLen(S, k) ==
  IF k = 0 THEN { <<>> }
  ELSE { Append(s, x) : s \in SeqsOfLen(S, k - 1), x \in S }

SeqsUpTo(S, n) == UNION { SeqsOfLen(S, k) : k \in 0..n }

\* The orders in which list() may enumerate the set S.
ListsOf(S) == { s \in SeqsOfLen(S, Cardinality(S)) : ToSet(s) = S }

RECURSIVE Flatten(_)
Flatten(ss) == IF ss = <<>> THEN <<>> ELSE Head(ss) \o Flatten(Tail(ss))

(***************************************************************************)
(* str.lstrip(chars): drop leading characters while they are in chars.     *)
(***************************************************************************)
RECURSIVE lstrip(_, _)
lstrip(s, chars) ==
  IF s # <<>> /\ Head(s) \in chars THEN lstrip(Tail(s), chars) ELSE s

\* The argument of lstrip on line 132, 'ID', as a set of characters.
STRIP_CHARS == {"I", "D"}

(***************************************************************************)
(* build_query_strings.  Texts are token sequences; str(list) is           *)
(* "[" + the reprs joined by ", " + "]", and [1:-1] drops both brackets.   *)
(***************************************************************************)
RECURSIVE ReprJoin(_)
ReprJoin(l) ==
  IF l = <<>> THEN <<>>
  ELSE IF Len(l) = 1 THEN <<"'", l[1], "'">>
  ELSE <<"'", l[1], "'", ", ">> \o ReprJoin(Tail(l))

StrOfList(l) == <<"[">> \o ReprJoin(l) \o <<"]">>

Slice1m1(s) == SubSeq(s, 2, Len(s) - 1)

CREATE_TABLE_QUERY_TEMPLATE(t, loc) ==
  <<"CREATE EXTERNAL TABLE ", t, " (...) LOCATION '", loc, "';">>

CREATE_PARTITON_QUERY_TEMPLATE(loc) ==
  <<"ALTER TABLE cloudtrail_logs add partition (year=2018) location '", loc,
    "/CloudTrail/us-east-1/2018/'">>

LAST_RUN_QUERY_TEMPLATE(csv) ==
  <<"select ... in (">> \o csv \o <<") group by ...">>

build_query_strings(arns) ==
  LET function_arns_csv == Slice1m1(StrOfList(arns)) IN
  << [role |-> Roles[1],
      text |-> CREATE_TABLE_QUERY_TEMPLATE(TABLE_NAME, CLOUDTRAIL_S3_BUCKET_NAME)],
     [role |-> Roles[2],
      text |-> CREATE_PARTITON_QUERY_TEMPLATE(CLOUDTRAIL_S3_BUCKET_NAME)],
     [role |-> Roles[3],
      text |-> LAST_RUN_QUERY_TEMPLATE(function_arns_csv)] >>

(***************************************************************************)
(* Result sets.  A row is [Data |-> cells]; a cell with a value is         *)
(* [VarCharValue |-> v], a null cell is the record without fields.  The    *)
(* statement selects two columns, function_name and "Last Run".            *)
(***************************************************************************)
NullCell == [k \in {} |-> None]
Cell(v)  == [VarCharValue |-> v]

HeaderRow  == [Data |-> <<Cell("function_name"), Cell("Last Run")>>]
DataRow(c) == [Data |-> <<c, Cell("2018-06-01T00:00:00Z")>>]
EmptyRow   == [Data |-> <<>>]

DataRows == {EmptyRow, DataRow(NullCell)} \cup { DataRow(Cell(a)) : a \in Arns }

\* Row lists the service may hold for the select: with or without the header.
RowLists ==
  LET ds == SeqsUpTo(DataRows, MaxDataRows) IN ds \cup { <<HeaderRow>> \o d : d \in ds }

\* The ways the service may cut a row list into at most n pages, the first of
\* at least m rows; pages after the first are not empty.
RECURSIVE Paginations(_, _, _)
Paginations(rows, n, m) ==
  { <<rows>> } \cup
  IF n < 2 THEN {}
  ELSE UNION { { <<SubSeq(rows, 1, k)>> \o rest :
                   rest \in Paginations(SubSeq(rows, k + 1, Len(rows)), n - 1, 1) } :
               k \in m..(Len(rows) - 1) }

PagedResults == UNION { Paginations(r, MaxPages, 0) : r \in RowLists }

\* The response of get_query_results called without NextToken: the first page.
FirstPage(pgs) ==
  [ResultSet |-> [Rows |-> pgs[1]],
   NextToken |-> IF Len(pgs) > 1 THEN "page-2" ELSE None]

(***************************************************************************)
(* get_set_of_function_arns_from_result_set: the loop over result_set[1:]. *)
(* Reading row['Data'][0] of a row without cells raises IndexError,        *)
(* reading ['VarCharValue'] of a null cell raises KeyError.                *)
(***************************************************************************)
RowError(row) ==
  IF Len(row.Data) = 0 THEN "IndexError"
  ELSE IF "VarCharValue" \notin DOMAIN row.Data[1] THEN "KeyError"
  ELSE None

PyTail(l) == IF l = <<>> THEN <<>> ELSE Tail(l)

RECURSIVE FirstRowError(_)
FirstRowError(rows) ==
  IF rows = <<>> THEN None
  ELSE IF RowError(Head(rows)) # None THEN RowError(Head(rows))
  ELSE FirstRowError(Tail(rows))

\* The loop runs over result_set instead of result_set[1:].
get_set_with_first_row(rs) ==
  { rs[i].Data[1].VarCharValue : i \in { j \in 1..Len(rs) : RowError(rs[j]) = None } }

get_set_of_function_arns_from_result_set(rs) ==
  { PyTail(rs)[i].Data[1].VarCharValue : i \in 1..Len(PyTail(rs)) }

\* The difference taken from the wrong side.
SetDifference_swapped(arns, used) == used \ ToSet(arns)

\* The symmetric difference instead of the difference.
SetDifference_symmetric(arns, used) == (ToSet(arns) \ used) \cup (used \ ToSet(arns))

\* line 179: set(function_arns) - set_of_functions_used
SetDifference(arns, used) == ToSet(arns) \ used

(***************************************************************************)
(* The query service.                                                      *)
(***************************************************************************)
\* States a status poll may report after the service last disclosed st.
Reportable(st) ==
  IF st = "SUBMITTED" THEN States
  ELSE IF st = "RUNNING" THEN States \ {"SUBMITTED"}
  ELSE {st}

\* The diagnostic that goes with state s, when the service last disclosed the
\* execution e: none unless FAILED, and the same one at every later poll.
ReasonsOf(e, s) ==
  IF s # "FAILED" THEN {None}
  ELSE IF e.state = "FAILED" THEN {e.reason}
  ELSE Diagnostics

Execution(role) ==
  [role |-> role, state |-> "SUBMITTED", reason |-> None, polled |-> FALSE]

Extend(f, k, v) == [x \in DOMAIN f \cup {k} |-> IF x = k THEN v ELSE f[x]]

EmptyMap == [x \in {} |-> None]

(***************************************************************************)
(* Initial state: main has not started, no local is bound yet.              *)
(***************************************************************************)
Init ==
  /\ pc = "retrieve"
  /\ function_arns = <<>>
  /\ queries = <<>>
  /\ query_results = <<>>
  /\ response = NoId
  /\ execution_status = None
  /\ result_set = <<>>
  /\ set_of_functions_used = {}
  /\ difference_list = <<>>
  /\ stdout = <<>>
  /\ error = NoError
  /\ polls = 0
  /\ svc = EmptyMap
  /\ list_calls = 0
  /\ failures = <<>>
  /\ submitted = <<>>
  /\ status_arg = NoId
  /\ results_arg = NoId
  /\ pages = <<>>

\* The exception is caught and the call is made again.
Raise_and_retry(type, op) == pc' = pc /\ error' = Exception(type, op)

\* An exception nobody catches ends the run.
Raise(type, op) == pc' = "crashed" /\ error' = Exception(type, op)

\* The loop of main runs a statement again when run_query returned None.
ReturnToMain_retrying(r) ==
  /\ query_results' = IF r = NoneValue THEN query_results ELSE Append(query_results, r)
  /\ polls' = 0
  /\ pc' = IF r = NoneValue \/ Len(query_results) + 1 < Len(queries)
           THEN "submit" ELSE "select"

\* run_query returns r to the loop of main (lines 169-170), which appends it
\* and goes on with the next statement, or leaves the loop after the last.
ReturnToMain(r) ==
  /\ query_results' = Append(query_results, r)
  /\ polls' = 0
  /\ pc' = IF Len(query_results) + 1 < Len(queries) THEN "submit" ELSE "select"

(***************************************************************************)
(* main, line 166: retrieve_function_arns.                                 *)
(***************************************************************************)
RetrieveFunctionArns ==
  /\ pc = "retrieve"
  /\ list_calls' = list_calls + 1
  /\ \/ /\ \E l \in SeqsUpTo(Arns, MaxInventory) : function_arns' = l
        /\ pc' = "build"
        /\ UNCHANGED error
     \/ /\ Raise("ClientError", "list_functions")
        /\ UNCHANGED function_arns
  /\ UNCHANGED <<queries, query_results, response, execution_status, result_set,
                 set_of_functions_used, difference_list, stdout, polls, svc,
                 failures, submitted, status_arg, results_arg, pages>>

(***************************************************************************)
(* main, lines 167-168: build_query_strings, query_results = [].           *)
(***************************************************************************)
BuildQueryStrings ==
  /\ pc = "build"
  /\ queries' = build_query_strings(function_arns)
  /\ query_results' = <<>>
  /\ pc' = "submit"
  /\ UNCHANGED <<function_arns, response, execution_status, result_set,
                 set_of_functions_used, difference_list, stdout, error, polls, svc,
                 list_calls, failures, submitted, status_arg, results_arg, pages>>

(***************************************************************************)
(* run_query, lines 119-129: start_query_execution.                        *)
(***************************************************************************)
StartQueryExecution ==
  /\ pc = "submit"
  /\ LET q == queries[Len(query_results) + 1] IN
     \/ /\ \E id \in ExecIds \ DOMAIN svc :
             /\ response' = id
             /\ svc' = Extend(svc, id, Execution(q.role))
             /\ submitted' = Append(submitted, id)
        /\ execution_status' = None
        /\ status_arg' = NoId
        /\ results_arg' = NoId
        /\ polls' = 0
        /\ pc' = "poll"
        /\ UNCHANGED error
     \/ /\ Raise("ClientError", "start_query_execution")
        /\ UNCHANGED <<response, svc, submitted, execution_status, status_arg,
                       results_arg, polls>>
  /\ UNCHANGED <<function_arns, queries, query_results, result_set,
                 set_of_functions_used, difference_list, stdout, list_calls,
                 failures, pages>>

(***************************************************************************)
(* run_query, lines 130-141: one pass of the polling loop.                 *)
(***************************************************************************)
\* FAILED leaves the loop like SUCCEEDED, without the early return.
AfterPoll_no_return(s) == IF s \in {"FAILED", "SUCCEEDED"} THEN "results" ELSE "poll"

\* Where the loop goes once the poll has read state s.
AfterPoll(s) ==
  IF s = "FAILED" THEN "return"
  ELSE IF s # "SUCCEEDED" THEN "poll"
  ELSE "results"

GetQueryExecution ==
  /\ pc = "poll"
  /\ LET qid == lstrip(response, STRIP_CHARS) IN
     /\ status_arg' = qid
     /\ IF qid \notin DOMAIN svc
        THEN /\ Raise("ClientError", "get_query_execution")
             /\ UNCHANGED <<svc, execution_status, query_results, polls, failures>>
        ELSE /\ polls < MaxPolls
             /\ \E s \in Reportable(svc[qid].state) :
                  /\ \E d \in ReasonsOf(svc[qid], s) :
                       svc' = [svc EXCEPT ![qid] = [@ EXCEPT !.state = s, !.reason = d,
                                                            !.polled = TRUE]]
                  /\ execution_status' = s
                  /\ IF AfterPoll(s) = "return"
                     THEN /\ failures' = Append(failures, [id |-> qid,
                                                           printed |-> FAILED_MESSAGE,
                                                           returned |-> NoneValue])
                          /\ ReturnToMain(NoneValue)
                     ELSE /\ pc' = AfterPoll(s)
                          /\ polls' = polls + 1
                          /\ UNCHANGED <<query_results, failures>>
             /\ UNCHANGED error
  /\ UNCHANGED <<function_arns, queries, response, result_set, set_of_functions_used,
                 difference_list, stdout, list_calls, submitted, results_arg, pages>>

(***************************************************************************)
(* run_query, lines 143-146: get_query_results, once, without NextToken.   *)
(***************************************************************************)
\* The service has the result of a finished execution only; of an execution
\* it last disclosed as not finished it may have it by now or not.
MayServe(st)  == st \in {"SUBMITTED", "RUNNING", "SUCCEEDED"}
MayRefuse(st) == st # "SUCCEEDED"

\* What the service holds for a statement: rows for the select, nothing for DDL.
ResultsOf(role) == IF role = Roles[3] THEN PagedResults ELSE { << <<>> >> }

GetQueryResults ==
  /\ pc = "results"
  /\ results_arg' = response
  /\ \/ /\ MayServe(svc[response].state)
        /\ \E pgs \in ResultsOf(svc[response].role) :
             /\ pages' = pgs
             /\ ReturnToMain(FirstPage(pgs))
        /\ UNCHANGED error
     \/ /\ MayRefuse(svc[response].state)
        /\ Raise("ClientError", "get_query_results")
        /\ UNCHANGED <<pages, query_results, polls>>
  /\ UNCHANGED <<function_arns, queries, response, execution_status, result_set,
                 set_of_functions_used, difference_list, stdout, svc, list_calls,
                 failures, submitted, status_arg>>

(***************************************************************************)
(* main, line 173: query_results[-1]['ResultSet']['Rows'].                 *)
(***************************************************************************)
SelectLastResult ==
  /\ pc = "select"
  /\ LET last == query_results[Len(query_results)] IN
     IF last = NoneValue
     THEN Raise("TypeError", "main") /\ UNCHANGED result_set
     ELSE /\ result_set' = last.ResultSet.Rows
          /\ pc' = "parse"
          /\ UNCHANGED error
  /\ UNCHANGED <<function_arns, queries, query_results, response, execution_status,
                 set_of_functions_used, difference_list, stdout, polls, svc,
                 list_calls, failures, submitted, status_arg, results_arg, pages>>

(***************************************************************************)
(* main, line 175: get_set_of_function_arns_from_result_set(result_set).   *)
(***************************************************************************)
ParseResultSet ==
  /\ pc = "parse"
  /\ IF FirstRowError(PyTail(result_set)) # None
     THEN /\ Raise(FirstRowError(PyTail(result_set)),
                   "get_set_of_function_arns_from_result_set")
          /\ UNCHANGED set_of_functions_used
     ELSE /\ set_of_functions_used' = get_set_of_function_arns_from_result_set(result_set)
          /\ pc' = "report"
          /\ UNCHANGED error
  /\ UNCHANGED <<function_arns, queries, query_results, response, execution_status,
                 result_set, difference_list, stdout, polls, svc, list_calls,
                 failures, submitted, status_arg, results_arg, pages>>

(***************************************************************************)
(* main, lines 178-182: print the heading and the stale functions.         *)
(***************************************************************************)
PrintStale ==
  /\ pc = "report"
  /\ \E l \in ListsOf(SetDifference(function_arns, set_of_functions_used)) :
       /\ difference_list' = l
       /\ stdout' = <<HEADING>> \o l
  /\ pc' = "done"
  /\ UNCHANGED <<function_arns, queries, query_results, response, execution_status,
                 result_set, set_of_functions_used, error, polls, svc, list_calls,
                 failures, submitted, status_arg, results_arg, pages>>

Next ==
  \/ RetrieveFunctionArns
  \/ BuildQueryStrings
  \/ StartQueryExecution
  \/ GetQueryExecution
  \/ GetQueryResults
  \/ SelectLastResult
  \/ ParseResultSet
  \/ PrintStale

Spec == Init /\ [][Next]_vars

\* The process has ended; its exit status is 0 when main returned and 1 when
\* an exception was not caught.
Exited   == pc \in {"done", "crashed"}
ExitCode == IF pc = "done" THEN 0 ELSE 1

TypeOK ==
  /\ pc \in {"retrieve", "build", "submit", "poll", "results", "select", "parse",
             "report", "done", "crashed"}
  /\ Len(query_results) <= 3
  /\ Len(submitted) <= 3
  /\ execution_status \in States \cup {None}
  /\ polls \in 0..MaxPolls

(***************************************************************************)
(* Vocabulary of the properties.                                           *)
(***************************************************************************)
\* The execution id under which the k-th statement was submitted.
Observed(k) == svc[submitted[k]].state

\* Every statement was submitted and a status poll of it returned SUCCEEDED.
AllSucceeded ==
  /\ Len(submitted) = Len(Roles)
  /\ \A k \in 1..Len(submitted) : Observed(k) = "SUCCEEDED"

\* A status poll has returned one of the states sts for some execution.
Reached(sts) == \E id \in DOMAIN svc : svc[id].state \in sts

\* The run has printed the stale list (its heading at least).
StaleSetReported == stdout # <<>>

\* A step of the polling loop: a call of get_query_execution.
IsStatusPoll == pc = "poll" /\ vars' # vars

\* A call of start_query_execution that returned an id.
IsSubmission == submitted' # submitted

NoDuplicates(l) == Cardinality(ToSet(l)) = Len(l)

(***************************************************************************)
(* C1: statement n+1 is not submitted until a status poll of statement n   *)
(* has returned SUCCEEDED: in every state, each statement submitted before *)
(* the last one submitted has SUCCEEDED as the state a poll returned.      *)
(***************************************************************************)
C1_SubmittedOnlyAfterSuccess ==
  \A k \in 1..(Len(submitted) - 1) : Observed(k) = "SUCCEEDED"

(***************************************************************************)
(* C2: once a status poll has returned FAILED or CANCELLED for a           *)
(* statement, start_query_execution is not called again in the run.        *)
(***************************************************************************)
C2_NoSubmissionAfterFailure ==
  [][Reached({"FAILED", "CANCELLED"}) => ~IsSubmission]_vars

(***************************************************************************)
(* C3: a run in which a status poll returned FAILED for some statement     *)
(* never prints the stale list, not even its heading.                      *)
(***************************************************************************)
C3_NoStaleSetAfterFailed ==
  Reached({"FAILED"}) => ~StaleSetReported

(***************************************************************************)
(* C4: the run exits with 0 only if all three statements reached           *)
(* SUCCEEDED; a run that has ended after a statement FAILED or CANCELLED,  *)
(* or after list_functions failed, has exited with a non-zero code.        *)
(***************************************************************************)
C4_ExitZeroOnlyOnSuccess ==
  Exited =>
    /\ ExitCode = 0 => AllSucceeded
    /\ Reached({"FAILED", "CANCELLED"}) => ExitCode # 0
    /\ error.op = "list_functions" => ExitCode # 0

(***************************************************************************)
(* C5: once a status poll has returned SUCCEEDED, FAILED or CANCELLED,     *)
(* run_query issues no further status poll for that execution.             *)
(***************************************************************************)
C5_PollingStopsAtTerminal ==
  [][(execution_status \in TerminalStates) => ~IsStatusPoll]_vars

(***************************************************************************)
(* C6: the id passed to get_query_execution and to get_query_results is    *)
(* the QueryExecutionId start_query_execution returned, unmodified.        *)
(***************************************************************************)
C6_IdentifierVerbatim ==
  /\ status_arg \in {NoId, response}
  /\ results_arg \in {NoId, response}

(***************************************************************************)
(* C7: in a run in which all three statements succeeded, the ResultSet     *)
(* run_query returns for the select holds the rows of every page of the    *)
(* result the service served, in order.                                    *)
(***************************************************************************)
C7_AllPagesDrained ==
  (AllSucceeded /\ Len(query_results) = Len(Roles))
    => query_results[Len(Roles)].ResultSet.Rows = Flatten(pages)

(***************************************************************************)
(* C8: when the run has reported, the identifiers printed after the        *)
(* heading are, each once, exactly the members of the inventory that are   *)
(* not in the ActiveSet, whatever the order and the duplicates of the      *)
(* inventory list.                                                         *)
(***************************************************************************)
C8_StaleSetIsDifference ==
  pc = "done" =>
    /\ ToSet(difference_list) =
         { a \in Arns : (\E i \in 1..Len(function_arns) : function_arns[i] = a)
                        /\ a \notin set_of_functions_used }
    /\ NoDuplicates(difference_list)
    /\ stdout = <<HEADING>> \o difference_list

\* All three statements succeeded, the inventory lists fn-b before fn-a, the
\* rows yield fn-a as active, and fn-b alone is reported.
C8_Witness ==
  /\ pc = "done"
  /\ AllSucceeded
  /\ function_arns = <<"fn-b", "fn-a">>
  /\ Len(result_set) = 3
  /\ set_of_functions_used = {"fn-a"}
  /\ difference_list = <<"fn-b">>

(***************************************************************************)
(* C9: a data row whose target cell is null does not abort parsing and     *)
(* contributes nothing: in a run in which all three statements succeeded,  *)
(* parsing never ends in the KeyError of the null cell, and the set        *)
(* returned holds the values of the other data rows.                       *)
(***************************************************************************)
NonNullValues(rows) ==
  { rows[i].Data[1].VarCharValue :
      i \in { j \in 1..Len(rows) : Len(rows[j].Data) > 0
                                   /\ "VarCharValue" \in DOMAIN rows[j].Data[1] } }

C9_NullCellTolerated ==
  AllSucceeded =>
    /\ error.type # "KeyError"
    /\ pc \in {"report", "done"}
         => set_of_functions_used = NonNullValues(PyTail(result_set))

(***************************************************************************)
(* C10: a final ResultSet without its header row (no rows at all, or data  *)
(* rows only) never leads to a reported stale list, also when all three    *)
(* statements succeeded.                                                   *)
(***************************************************************************)
HasHeader(rows) == rows # <<>> /\ rows[1] = HeaderRow

C10_NoHeaderNoStaleSet ==
  (AllSucceeded /\ StaleSetReported) => HasHeader(result_set)

(***************************************************************************)
(* C11: the failure reported for a FAILED statement carries the diagnostic *)
(* the service attached to the FAILED status (in the line printed or in    *)
(* the value returned), and no statement is submitted a second time.       *)
(***************************************************************************)
FieldsOf(r) == { r[k] : k \in DOMAIN r }

\* No statement has two executions.
SubmittedAtMostOnce ==
  \A i, j \in 1..Len(submitted) :
    svc[submitted[i]].role = svc[submitted[j]].role => i = j

C11_FailureCarriesDiagnostic ==
  /\ \A i \in 1..Len(failures) :
       \/ failures[i].printed = svc[failures[i].id].reason
       \/ svc[failures[i].id].reason \in FieldsOf(failures[i].returned)
  /\ SubmittedAtMostOnce

(***************************************************************************)
(* C12: each statement is submitted at most once, start_query_execution is *)
(* called at most three times in a run, and after a call of it has failed  *)
(* the run has ended: no step follows, so no submission, status or result  *)
(* call.                                                                   *)
(***************************************************************************)
SubmissionFailed == error.op = "start_query_execution"

SubmissionCalls == Len(submitted) + (IF SubmissionFailed THEN 1 ELSE 0)

C12_NoRetries ==
  /\ [](SubmittedAtMostOnce /\ SubmissionCalls <= Len(Roles))
  /\ [](SubmissionFailed => Exited /\ ExitCode # 0)
  /\ [][~SubmissionFailed]_vars

\* The submission of add_partition failed after create_table had succeeded.
C12_Witness ==
  /\ SubmissionFailed
  /\ pc = "crashed"
  /\ Len(submitted) = 1
  /\ Observed(1) = "SUCCEEDED"
  /\ Len(query_results) = 1

(***************************************************************************)
(* C13: list_functions is called once, before any submission; when it      *)
(* fails the run ends with no statement built and no call of the query     *)
(* service.                                                                *)
(***************************************************************************)
NoQueryServiceCall ==
  /\ svc = EmptyMap
  /\ submitted = <<>>
  /\ status_arg = NoId
  /\ results_arg = NoId
  /\ ~SubmissionFailed

C13_InventoryOnceAndFirst ==
  /\ list_calls <= 1
  /\ pc # "retrieve" => list_calls = 1
  /\ list_calls = 0 => NoQueryServiceCall
  /\ error.op = "list_functions" => (Exited /\ queries = <<>> /\ NoQueryServiceCall)

\* list_functions has failed and the run is over.
C13_Witness ==
  /\ error = Exception("ClientError", "list_functions")
  /\ pc = "crashed"
  /\ list_calls = 1
  /\ queries = <<>>

(***************************************************************************)
(* C14: the compute_activity statement built for an empty inventory has a  *)
(* filter that is syntactically valid, that is, its IN list is not empty;  *)
(* and a run with an empty inventory reports no identifier.                *)
(***************************************************************************)
\* The tokens of the statement between "in (" and ")".
InList(text) == SubSeq(text, 2, Len(text) - 1)

C14_EmptyInventoryValidFilter ==
  /\ queries # <<>> => InList(queries[3].text) # <<>>
  /\ (pc = "done" /\ function_arns = <<>>) => difference_list = <<>>

(***************************************************************************)
(* C15: the set the parser returns holds exactly the values of the target  *)
(* column of the rows after the first: the first row contributes nothing,  *)
(* equal values count once, and the order of the rows does not matter.     *)
(***************************************************************************)
C15_ParserDistinctDataValues ==
  pc \in {"report", "done"} =>
    \A v \in Arns \cup {"function_name"} :
      v \in set_of_functions_used
        <=> \E i \in 2..Len(result_set) : result_set[i].Data[1] = Cell(v)

\* Header, then the same value in two data rows: the set has it once.
C15_Witness ==
  /\ pc = "report"
  /\ result_set = <<HeaderRow, DataRow(Cell("fn-b")), DataRow(Cell("fn-b"))>>
  /\ set_of_functions_used = {"fn-b"}

(***************************************************************************)
(* C16: statements never run concurrently: at most one submitted execution *)
(* has not been observed in a terminal state by a status poll.             *)
(***************************************************************************)
Unfinished == { id \in DOMAIN svc : svc[id].state \notin TerminalStates }

C16_OneExecutionAtATime ==
  Cardinality(Unfinished) <= 1

(***************************************************************************)
(* C17: identifiers of the result that are not in the inventory cause no   *)
(* error and are not printed: the step that reports always completes, and  *)
(* every identifier reported is in the inventory.                          *)
(***************************************************************************)
C17_StaleSubsetOfInventory ==
  /\ [](pc = "done" =>
          /\ ToSet(difference_list) \subseteq ToSet(function_arns)
          /\ ToSet(Tail(stdout)) \subseteq ToSet(function_arns))
  /\ [][pc = "report" => pc' = "done"]_vars

\* The result names fn-b, which the inventory does not hold.
C17_Witness ==
  /\ pc = "done"
  /\ function_arns = <<"fn-a">>
  /\ set_of_functions_used = {"fn-b"}
  /\ stdout = <<HEADING, "fn-a">>

(***************************************************************************)
(* C18: get_query_results is called for an execution only after a status   *)
(* poll of that execution, and only if the last one returned SUCCEEDED.    *)
(***************************************************************************)
C18_ResultsOnlyAfterSuccess ==
  results_arg # NoId =>
    /\ svc[results_arg].polled
    /\ svc[results_arg].state = "SUCCEEDED"

(***************************************************************************)
(* C19: when a status poll of compute_activity has returned FAILED,        *)
(* run_query returns None for it, nothing of the stale list is printed,    *)
(* and the run ends with an error, whatever the first two statements did.  *)
(***************************************************************************)
ComputeActivityFailed ==
  /\ Len(submitted) = Len(Roles)
  /\ Observed(Len(Roles)) = "FAILED"

C19_FailedLastStatementStops ==
  ComputeActivityFailed =>
    /\ ~StaleSetReported
    /\ pc \in {"select", "crashed"}
    /\ Len(query_results) = Len(Roles)
    /\ query_results[Len(Roles)] = NoneValue
    /\ Exited => ExitCode # 0

\* create_table and add_partition succeeded, compute_activity FAILED, and
\* main has stopped on line 173.
C19_Witness ==
  /\ ComputeActivityFailed
  /\ Observed(1) = "SUCCEEDED"
  /\ Observed(2) = "SUCCEEDED"
  /\ pc = "crashed"
  /\ error = Exception("TypeError", "main")
  /\ stdout = <<>>
====
